---- MODULE Spec2Model ----
(***************************************************************************)
(* Model of YOLOv9/Yolov9_DeepSort_MOT16.py: the frame preprocessor        *)
(* resize_and_pad, the per-frame function inference and the processing     *)
(* loop of run.                                                            *)
(*                                                                         *)
(* Three specifications are defined over the same variables:               *)
(*   Spec     the loop of run, one action per step of run and inference;   *)
(*   SpecPad  resize_and_pad applied to an arbitrary small image;          *)
(*   SpecBox  the box mapping of inference (pad, scale_boxes, round, int)  *)
(*            applied to one detection box.                                *)
(***************************************************************************)
EXTENDS Integers, Sequences, FiniteSets

\* ----------------------------------------------------------------- bounds
MaxFrames == 5      \* frames the video source holds
MaxDet == 2         \* detections the detector returns for one frame
MaxTracks == 2      \* tracks alive in the tracker at one time
MaxStride == 3      \* model strides tried
MaxDim == 2         \* image height and width (SpecPad)
MaxBoxDim == 4      \* image height and width (SpecBox)

\* ------------------------------------------------------ program constants
n_init == 3         \* DeepSort(n_init=3)
max_age == 30       \* DeepSort(max_age=30)

\* run() sets no separate age limit for tentative tracks; the tracker drops
\* a tentative track at its first missed frame.
TentativeMaxAge == 0

Pixel == {0, 1}

VARIABLES
    pc,             \* position in run / inference
    pos,            \* frames consumed from the source by cap.read()
    stride,         \* model.stride
    frame,          \* the frame returned by cap.read()
    padded_image,   \* result of resize_and_pad
    pred,           \* number of rows of pred[0] after non_max_suppression
    detections,     \* the list handed to update_tracks
    deepsort,       \* the tracker: [tracks, next_id]
    tracks,         \* the list returned by update_tracks
    annotated,      \* ids drawn by annotator.box_label for the current frame
    out,            \* indices of the frames written to the VideoWriter
    updates,        \* frames for which update_tracks was called, in order
    update_arg,     \* the detections of the latest update_tracks call
    nread,          \* successful reads so far (index of the current frame)
    npad,           \* frames preprocessed
    ndetect,        \* frames for which the detector returned
    pre_tracks,     \* tracker state when the current frame was read
    failed,         \* frames whose detector call raised
    quit,           \* why the loop was left: "", "eof", "readerr", "q"
    err,            \* exception propagating out of run ("" if none)
    deleted,        \* ids of tracks the tracker deleted
    box,            \* SpecBox: a detection box in padded-tensor coordinates
    det_box,        \* SpecBox: the detection handed to the tracker
    orig            \* SpecPad: the caller's view of the input image

vars == <<pc, pos, stride, frame, padded_image, pred,
          detections, deepsort, tracks, annotated, out, updates, nread, npad,
          ndetect, pre_tracks, failed, quit, err, deleted, box, det_box, orig,
          update_arg>>

\* ------------------------------------------------------------ images
\* An image is its shape (h, w, 3) and its pixels; a pixel value stands for
\* the (b, g, r) triple.  A 1-D array has a shape of length 1.
Rows(h) == 0 .. (h - 1)

Image(h, w, px) == [shape |-> <<h, w, 3>>, px |-> px]

Blank(h, w) == Image(h, w, [p \in Rows(h) \X Rows(w) |-> 1])

NoImage == [shape |-> <<>>, px |-> <<>>]

\* new_h = (h + stride - 1) // stride * stride
PadDim_off(h, s) == (h \div s + 1) * s

PadDim(h, s) == ((h + s - 1) \div s) * s

\* padded_image = np.zeros(...); padded_image[:h, :w, :] = image
PadPixels_shift(image, new_h, new_w) ==
    LET h == image.shape[1]
        w == image.shape[2]
    IN  [p \in Rows(new_h) \X Rows(new_w) |->
            IF p[1] >= new_h - h /\ p[2] >= new_w - w
            THEN image.px[<<p[1] - (new_h - h), p[2] - (new_w - w)>>] ELSE 0]

PadPixels(image, new_h, new_w) ==
    LET h == image.shape[1]
        w == image.shape[2]
    IN  [p \in Rows(new_h) \X Rows(new_w) |->
            IF p[1] < h /\ p[2] < w THEN image.px[p] ELSE 0]

\* resize_and_pad: the value returned, or the exception raised.
\* `h, w = image.shape[:2]` raises ValueError when the shape has fewer than
\* two entries; nothing else in the function rejects an input.
resize_and_pad(image, s) ==
    IF Len(image.shape) < 2
    THEN [ok |-> FALSE, err |-> "ValueError", image |-> NoImage]
    ELSE LET new_h == PadDim(image.shape[1], s)
             new_w == PadDim(image.shape[2], s)
         IN  [ok |-> TRUE, err |-> "",
              image |-> Image(new_h, new_w, PadPixels(image, new_h, new_w))]

\* ------------------------------------------------------------ tracker
\* The DeepSort tracker is an imported package; its track lifecycle is
\* modelled from the design document (Track Lifecycle Manager), with the
\* thresholds run() passes: n_init and max_age.  streak is a history field:
\* the matches a track has had in a row, its creation included.
NewTrack(id) ==
    [id |-> id, state |-> "Tentative", hits |-> 1, time_since_update |-> 0,
     age |-> 1, streak |-> 1]

Predict(t) ==
    [t EXCEPT !.time_since_update = @ + 1, !.age = @ + 1]

TrackUpdate(t) ==
    [t EXCEPT !.hits = @ + 1, !.time_since_update = 0, !.streak = @ + 1,
              !.state = IF t.state = "Tentative" /\ t.hits + 1 >= n_init
                        THEN "Confirmed" ELSE @]

MarkMissed(t) ==
    [t EXCEPT !.streak = 0,
              !.state = IF t.state = "Tentative"
                        THEN (IF t.time_since_update > TentativeMaxAge
                              THEN "Deleted" ELSE @)
                        ELSE (IF t.time_since_update > max_age
                              THEN "Deleted" ELSE @)]

is_confirmed(t) == t.state = "Confirmed"

is_deleted(t) == t.state = "Deleted"

\* One cycle of the tracker on n detections, M the indices of the tracks the
\* association matched: every track is predicted, matched tracks are updated,
\* the others marked missed, every unmatched detection starts a track.
Cycle(ds, n, M) ==
    LET k == Len(ds.tracks)
        old == [i \in 1 .. k |->
                   IF i \in M THEN TrackUpdate(Predict(ds.tracks[i]))
                   ELSE MarkMissed(Predict(ds.tracks[i]))]
        fresh == [j \in 1 .. (n - Cardinality(M)) |->
                     NewTrack(ds.next_id + j - 1)]
    IN  [all |-> old \o fresh, next_id |-> ds.next_id + (n - Cardinality(M))]

\* deepsort.update_tracks(detections, frame=im0): deleted tracks are removed
\* from the store at the end of the cycle; the store's list is returned.
update_tracks(ds, dets, M) ==
    LET c == Cycle(ds, Len(dets), M)
    IN  [tracks |-> SelectSeq(c.all, LAMBDA t : ~is_deleted(t)),
         next_id |-> c.next_id]

DeletedIds(ds, dets, M) ==
    LET c == Cycle(ds, Len(dets), M)
    IN  {c.all[i].id : i \in {j \in 1 .. Len(c.all) : is_deleted(c.all[j])}}

\* ---------------------------------------------------------- inference
\* for *xyxy, conf, cls in reversed(det): detections.append(...)
BuildDetections(n) == [i \in 1 .. n |-> n - i + 1]

\* if not track.is_confirmed() or track.time_since_update > 0: continue
Skips_noTsu(track) == ~is_confirmed(track)

Skips_noConf(track) == track.time_since_update > 0

Skips(track) == ~is_confirmed(track) \/ track.time_since_update > 0

RECURSIVE AnnotateLoop(_, _, _)
AnnotateLoop(ts, i, acc) ==
    IF i > Len(ts) THEN acc
    ELSE IF Skips(ts[i]) THEN AnnotateLoop(ts, i + 1, acc)
    ELSE AnnotateLoop(ts, i + 1, acc \cup {ts[i].id})

\* ------------------------------------------------------------------ run
\* Frames the video source delivers: cap.read() returns ret = True only with
\* a decoded h x w x 3 frame.
VideoFrames == {Blank(1, 3), Blank(2, 3)}

\* model.stride is a property of the loaded weights.
ModelStrides == {1, 2}

NoTracker == [tracks |-> <<>>, next_id |-> 1]

Init ==
    /\ pc = "read"
    /\ pos = 0
    /\ stride \in ModelStrides
    /\ frame = NoImage
    /\ padded_image = NoImage
    /\ pred = 0
    /\ detections = <<>>
    /\ deepsort = NoTracker
    /\ tracks = <<>>
    /\ annotated = {}
    /\ out = <<>>
    /\ updates = <<>>
    /\ update_arg = <<>>
    /\ nread = 0
    /\ npad = 0
    /\ ndetect = 0
    /\ pre_tracks = <<>>
    /\ failed = {}
    /\ quit = ""
    /\ err = ""
    /\ deleted = {}
    /\ box = <<>>
    /\ det_box = <<>>
    /\ orig = NoImage

\* ret, frame = cap.read() with ret true; inference(frame, ...) is entered.
ReadOk ==
    /\ pc = "read"
    /\ pos < MaxFrames
    /\ \E f \in VideoFrames : frame' = f
    /\ pos' = pos + 1
    /\ nread' = nread + 1
    /\ pre_tracks' = deepsort.tracks
    /\ pc' = "pad"
    /\ UNCHANGED <<stride, padded_image, pred, detections, deepsort, tracks,
                   annotated, out, updates, npad, ndetect, failed, quit, err,
                   deleted, box, det_box, orig, update_arg>>

\* if not ret: print("End of video or error reading frame."); break
\* The read fails at the end of the video, or earlier on a frame the source
\* cannot deliver; the code does not tell the two apart.
ReadFail_continue ==
    /\ pc = "read"
    /\ pos < MaxFrames
    /\ pos' = pos + 1
    /\ quit' = "readerr"
    /\ pc' = "read"
    /\ UNCHANGED <<stride, frame, padded_image, pred, detections, deepsort,
                   tracks, annotated, out, updates, nread, npad, ndetect,
                   pre_tracks, failed, err, deleted, box, det_box, orig, update_arg>>

ReadFail ==
    /\ pc = "read"
    /\ pos' = IF pos < MaxFrames THEN pos + 1 ELSE pos
    /\ quit' = IF pos < MaxFrames THEN "readerr" ELSE "eof"
    /\ pc' = "cleanup"
    /\ UNCHANGED <<stride, frame, padded_image, pred, detections, deepsort,
                   tracks, annotated, out, updates, nread, npad, ndetect,
                   pre_tracks, failed, err, deleted, box, det_box, orig, update_arg>>

\* padded_image = resize_and_pad(image, stride=model.stride)
Pad ==
    /\ pc = "pad"
    /\ LET r == resize_and_pad(frame, stride)
       IN  /\ padded_image' = r.image
           /\ err' = r.err
           /\ pc' = IF r.ok THEN "detect" ELSE "raised"
           /\ npad' = IF r.ok THEN npad + 1 ELSE npad
    /\ UNCHANGED <<pos, stride, frame, pred, detections, deepsort, tracks,
                   annotated, out, updates, nread, ndetect, pre_tracks,
                   failed, quit, deleted, box, det_box, orig, update_arg>>

\* pred = model(img)[0]; pred = non_max_suppression(..., max_det=100)
DetectOk ==
    /\ pc = "detect"
    /\ \E n \in 0 .. MaxDet : pred' = n
    /\ ndetect' = ndetect + 1
    /\ pc' = "scale"
    /\ UNCHANGED <<pos, stride, frame, padded_image, detections, deepsort,
                   tracks, annotated, out, updates, nread, npad, pre_tracks,
                   failed, quit, err, deleted, box, det_box, orig, update_arg>>

\* The detector call raises: nothing in inference or run catches it.
DetectFail_swallow ==
    /\ pc = "detect"
    /\ pred' = 0
    /\ failed' = failed \cup {nread}
    /\ pc' = "scale"
    /\ UNCHANGED <<pos, stride, frame, padded_image, detections, deepsort,
                   tracks, annotated, out, updates, nread, npad, ndetect,
                   pre_tracks, quit, err, deleted, box, det_box, orig, update_arg>>

DetectFail ==
    /\ pc = "detect"
    /\ err' = "DetectorError"
    /\ failed' = failed \cup {nread}
    /\ pc' = "raised"
    /\ UNCHANGED <<pos, stride, frame, padded_image, pred, detections,
                   deepsort, tracks, annotated, out, updates, nread, npad,
                   ndetect, pre_tracks, quit, deleted, box, det_box, orig, update_arg>>

\* detections = []; if len(pred[0]): ... detections.append(...)
Scale ==
    /\ pc = "scale"
    /\ detections' = IF pred > 0 THEN BuildDetections(pred) ELSE <<>>
    /\ pc' = "update"
    /\ UNCHANGED <<pos, stride, frame, padded_image, pred, deepsort, tracks,
                   annotated, out, updates, nread, npad, ndetect, pre_tracks,
                   failed, quit, err, deleted, box, det_box, orig, update_arg>>

\* tracks = deepsort.update_tracks(detections, frame=im0)
Update_skipEmpty ==
    /\ pc = "update"
    /\ \E M \in SUBSET (1 .. Len(deepsort.tracks)) :
          /\ Cardinality(M) <= Len(detections)
          /\ Len(update_tracks(deepsort, detections, M).tracks) <= MaxTracks
          /\ IF detections = <<>>
             THEN UNCHANGED <<deepsort, updates, update_arg, deleted>>
                  /\ tracks' = <<>>
             ELSE /\ deepsort' = update_tracks(deepsort, detections, M)
                  /\ tracks' = deepsort'.tracks
                  /\ deleted' = deleted \cup DeletedIds(deepsort, detections, M)
                  /\ updates' = Append(updates, nread)
                  /\ update_arg' = detections
    /\ pc' = "annotate"
    /\ UNCHANGED <<pos, stride, frame, padded_image, pred, detections,
                   annotated, out, nread, npad, ndetect, pre_tracks, failed,
                   quit, err, box, det_box, orig>>

Update ==
    /\ pc = "update"
    /\ \E M \in SUBSET (1 .. Len(deepsort.tracks)) :
          /\ Cardinality(M) <= Len(detections)
          /\ Len(update_tracks(deepsort, detections, M).tracks) <= MaxTracks
          /\ deepsort' = update_tracks(deepsort, detections, M)
          /\ tracks' = deepsort'.tracks
          /\ deleted' = deleted \cup DeletedIds(deepsort, detections, M)
    /\ updates' = Append(updates, nread)
    /\ update_arg' = detections
    /\ pc' = "annotate"
    /\ UNCHANGED <<pos, stride, frame, padded_image, pred, detections,
                   annotated, out, nread, npad, ndetect, pre_tracks, failed,
                   quit, err, box, det_box, orig>>

\* for track in tracks: ... annotator.box_label(bbox, label, ...)
Annotate ==
    /\ pc = "annotate"
    /\ annotated' = AnnotateLoop(tracks, 1, {})
    /\ pc' = "return"
    /\ UNCHANGED <<pos, stride, frame, padded_image, pred, detections,
                   deepsort, tracks, out, updates, nread, npad, ndetect,
                   pre_tracks, failed, quit, err, deleted, box, det_box, orig,
                   update_arg>>

\* return annotator.result(): the locals of inference go out of scope.
Return ==
    /\ pc = "return"
    /\ padded_image' = NoImage
    /\ pred' = 0
    /\ detections' = <<>>
    /\ tracks' = <<>>
    /\ pre_tracks' = <<>>
    /\ pc' = "write"
    /\ UNCHANGED <<pos, stride, frame, deepsort, annotated, out, updates,
                   nread, npad, ndetect, failed, quit, err, deleted, box,
                   det_box, orig, update_arg>>

\* out.write(annotated_frame)
Write ==
    /\ pc = "write"
    /\ out' = Append(out, nread)
    /\ pc' = "show"
    /\ UNCHANGED <<pos, stride, frame, padded_image, pred, detections,
                   deepsort, tracks, annotated, updates, nread, npad, ndetect,
                   pre_tracks, failed, quit, err, deleted, box, det_box, orig, update_arg>>

\* cv2.imshow(...); if cv2.waitKey(1) & 0xFF == ord('q'): break
WaitKey_midFrame ==
    /\ pc \in {"update", "show"}
    /\ \E q \in BOOLEAN :
          /\ pc' = IF q THEN "cleanup" ELSE "read"
          /\ quit' = IF q THEN "q" ELSE quit
    /\ UNCHANGED <<pos, stride, frame, padded_image, pred, detections,
                   deepsort, tracks, annotated, out, updates, nread, npad,
                   ndetect, pre_tracks, failed, err, deleted, box, det_box,
                   orig, update_arg>>

WaitKey ==
    /\ pc = "show"
    /\ \E q \in BOOLEAN :
          /\ pc' = IF q THEN "cleanup" ELSE "read"
          /\ quit' = IF q THEN "q" ELSE quit
    /\ UNCHANGED <<pos, stride, frame, padded_image, pred, detections,
                   deepsort, tracks, annotated, out, updates, nread, npad,
                   ndetect, pre_tracks, failed, err, deleted, box, det_box,
                   orig, update_arg>>

\* cap.release(); out.release(); cv2.destroyAllWindows()
Cleanup ==
    /\ pc = "cleanup"
    /\ pc' = "done"
    /\ UNCHANGED <<pos, stride, frame, padded_image, pred, detections,
                   deepsort, tracks, annotated, out, updates, nread, npad,
                   ndetect, pre_tracks, failed, quit, err, deleted, box,
                   det_box, orig, update_arg>>

Next ==
    \/ ReadOk
    \/ ReadFail
    \/ Pad
    \/ DetectOk
    \/ DetectFail
    \/ Scale
    \/ Update
    \/ Annotate
    \/ Return
    \/ Write
    \/ WaitKey
    \/ Cleanup

Spec == Init /\ [][Next]_vars

\* ------------------------------------------------- resize_and_pad alone
\* Arrays handed to resize_and_pad: every h x w x 3 image over Pixel with
\* h, w <= MaxDim (empty ones included) and the 1-D arrays.
Images ==
    UNION {{Image(h, w, px) : px \in [Rows(h) \X Rows(w) -> Pixel]} :
              <<h, w>> \in (0 .. MaxDim) \X (0 .. MaxDim)}

Arrays1D == {[shape |-> <<n>>, px |-> <<>>] : n \in 0 .. MaxDim}

InitPad ==
    /\ pc = "pad_call"
    /\ frame \in Images \cup Arrays1D
    /\ orig = frame
    /\ stride \in 1 .. MaxStride
    /\ pos = 0
    /\ padded_image = NoImage
    /\ pred = 0
    /\ detections = <<>>
    /\ deepsort = NoTracker
    /\ tracks = <<>>
    /\ annotated = {}
    /\ out = <<>>
    /\ updates = <<>>
    /\ update_arg = <<>>
    /\ nread = 0
    /\ npad = 0
    /\ ndetect = 0
    /\ pre_tracks = <<>>
    /\ failed = {}
    /\ quit = ""
    /\ err = ""
    /\ deleted = {}
    /\ box = <<>>
    /\ det_box = <<>>

\* padded_image = resize_and_pad(image, stride)
PadCall ==
    /\ pc = "pad_call"
    /\ LET r == resize_and_pad(frame, stride)
       IN  /\ padded_image' = r.image
           /\ err' = r.err
           /\ pc' = IF r.ok THEN "pad_done" ELSE "pad_raised"
    /\ UNCHANGED <<pos, stride, frame, pred, detections, deepsort, tracks,
                   annotated, out, updates, update_arg, nread, npad, ndetect,
                   pre_tracks, failed, quit, deleted, box, det_box, orig>>

NextPad == PadCall

SpecPad == InitPad /\ [][NextPad]_vars

\* --------------------------------------------------- the box mapping
\* scale_boxes(img1_shape, boxes, img0_shape) of utils.general, as called
\* on line 54 with no ratio_pad: gain and pad are derived from the two
\* shapes alone,
\*     gain = min(img1_shape[0] / img0_shape[0], img1_shape[1] / img0_shape[1])
\*     pad  = (img1_shape[1] - img0_shape[1] * gain) / 2,
\*            (img1_shape[0] - img0_shape[0] * gain) / 2
\*     boxes[:, [0, 2]] -= pad[0]; boxes[:, [1, 3]] -= pad[1]
\*     boxes[:, :4] /= gain; clip_boxes(boxes, img0_shape)
\* The arithmetic is exact here: gain is the fraction g[1] / g[2].
Gain(img1_shape, img0_shape) ==
    IF img1_shape[1] * img0_shape[2] <= img1_shape[2] * img0_shape[1]
    THEN <<img1_shape[1], img0_shape[1]>>
    ELSE <<img1_shape[2], img0_shape[2]>>

\* torch.round: halves go to the even integer.  num >= 0, den > 0.
RoundHalfEven(num, den) ==
    LET q == num \div den
        r == num % den
    IN  IF 2 * r < den THEN q
        ELSE IF 2 * r > den THEN q + 1
        ELSE IF q % 2 = 0 THEN q ELSE q + 1

\* One coordinate x of the padded tensor (extent P) mapped to the frame
\* (extent p): (x - (P - p * gain) / 2) / gain, clipped to [0, p], rounded.
ScaleCoord(x, P, p, g) ==
    LET num == (2 * x - P) * g[2] + p * g[1]
        den == 2 * g[1]
    IN  IF num <= 0 THEN 0
        ELSE IF num >= p * den THEN p
        ELSE RoundHalfEven(num, den)

\* det[:, :4] = scale_boxes(img.shape[2:], det[:, :4], im0.shape).round()
scale_boxes(img1_shape, b, img0_shape) ==
    LET g == Gain(img1_shape, img0_shape)
    IN  <<ScaleCoord(b[1], img1_shape[2], img0_shape[2], g),
          ScaleCoord(b[2], img1_shape[1], img0_shape[1], g),
          ScaleCoord(b[3], img1_shape[2], img0_shape[2], g),
          ScaleCoord(b[4], img1_shape[1], img0_shape[1], g)>>

\* x1, y1, x2, y2 = map(int, xyxy); ([x1, y1, x2 - x1, y2 - y1], conf, cls)
Detection(xyxy) ==
    <<xyxy[1], xyxy[2], xyxy[3] - xyxy[1], xyxy[4] - xyxy[2]>>

\* Boxes with integer corners inside the h x w original-content region.
BoxesIn(h, w) ==
    {<<x1, y1, x2, y2>> \in (0 .. w) \X (0 .. h) \X (0 .. w) \X (0 .. h) :
        x1 < x2 /\ y1 < y2}

InitBox ==
    /\ pc = "box_pad"
    /\ \E h \in 1 .. MaxBoxDim, w \in 1 .. MaxBoxDim :
          /\ frame = Blank(h, w)
          /\ box \in BoxesIn(h, w)
    /\ orig = frame
    /\ stride \in 1 .. MaxStride
    /\ pos = 0
    /\ padded_image = NoImage
    /\ pred = 0
    /\ detections = <<>>
    /\ deepsort = NoTracker
    /\ tracks = <<>>
    /\ annotated = {}
    /\ out = <<>>
    /\ updates = <<>>
    /\ update_arg = <<>>
    /\ nread = 0
    /\ npad = 0
    /\ ndetect = 0
    /\ pre_tracks = <<>>
    /\ failed = {}
    /\ quit = ""
    /\ err = ""
    /\ deleted = {}
    /\ det_box = <<>>

\* padded_image = resize_and_pad(image, stride=model.stride); the detector
\* then reports box in the coordinates of padded_image.
BoxPad ==
    /\ pc = "box_pad"
    /\ padded_image' = resize_and_pad(frame, stride).image
    /\ pc' = "box_scale"
    /\ UNCHANGED <<pos, stride, frame, pred, detections, deepsort, tracks,
                   annotated, out, updates, update_arg, nread, npad, ndetect,
                   pre_tracks, failed, quit, err, deleted, box, det_box, orig>>

\* lines 54-59 for one row of det
BoxScale ==
    /\ pc = "box_scale"
    /\ det_box' = Detection(scale_boxes(<<padded_image.shape[1],
                                           padded_image.shape[2]>>,
                                         box, frame.shape))
    /\ pc' = "box_done"
    /\ UNCHANGED <<pos, stride, frame, padded_image, pred, detections,
                   deepsort, tracks, annotated, out, updates, update_arg,
                   nread, npad, ndetect, pre_tracks, failed, quit, err,
                   deleted, box, orig>>

NextBox ==
    \/ BoxPad
    \/ BoxScale

SpecBox == InitBox /\ [][NextBox]_vars

\* ================================================================ claims
Ids(ts) == {ts[i].id : i \in 1 .. Len(ts)}

TrackOf(ts, id) == ts[CHOOSE i \in 1 .. Len(ts) : ts[i].id = id]

Emitting == pc \in {"return", "write", "show"}

\* C1: for every frame processed by inference, the tracks annotated are
\* exactly the tracks returned by the tracker update that are Confirmed and
\* have time_since_update = 0.
C1_AnnotatedExactly ==
    /\ pc = "return" => tracks = deepsort.tracks
    /\ Emitting =>
          annotated = {t.id : t \in {deepsort.tracks[i] :
                                      i \in {j \in 1 .. Len(deepsort.tracks) :
                                         /\ deepsort.tracks[j].state = "Confirmed"
                                         /\ deepsort.tracks[j].time_since_update = 0}}}

C1_Witness ==
    /\ pc = "return"
    /\ annotated # {}
    /\ \E i \in 1 .. Len(tracks) :
          tracks[i].state = "Confirmed" /\ tracks[i].time_since_update > 0

\* C2: for h >= 1, w >= 1 and stride s >= 1 the padded frame's height H and
\* width W are the smallest multiples of s not below h and w:
\* H mod s = 0, h <= H < h + s, and the same for W.
C2_StrideAligned ==
    (pc = "pad_done" /\ orig.shape[1] >= 1 /\ orig.shape[2] >= 1) =>
        LET h == orig.shape[1]
            w == orig.shape[2]
            H == padded_image.shape[1]
            W == padded_image.shape[2]
        IN  /\ H % stride = 0 /\ h <= H /\ H < h + stride
            /\ W % stride = 0 /\ w <= W /\ W < w + stride

C2_Witness ==
    /\ pc = "pad_done"
    /\ stride > 1
    /\ orig.shape[1] >= 1 /\ orig.shape[1] % stride # 0
    /\ orig.shape[2] >= 1 /\ orig.shape[2] % stride = 0
    /\ padded_image.shape[1] > orig.shape[1]

\* C3: the output of resize_and_pad equals the input at every position
\* (r, c) with r < h and c < w, is zero at every other position, and the
\* input frame is left unmodified.
C3_TopLeftZeroFill ==
    pc = "pad_done" =>
        /\ frame = orig
        /\ \A r \in Rows(padded_image.shape[1]), c \in Rows(padded_image.shape[2]) :
              padded_image.px[<<r, c>>] =
                 IF r < orig.shape[1] /\ c < orig.shape[2]
                 THEN orig.px[<<r, c>>] ELSE 0

C3_Witness ==
    /\ pc = "pad_done"
    /\ padded_image.shape[1] > orig.shape[1]
    /\ padded_image.shape[2] > orig.shape[2]
    /\ \E p \in DOMAIN orig.px : orig.px[p] # 0
    /\ \E p \in DOMAIN orig.px : orig.px[p] = 0

\* C4: the box handed to the tracker is the detector's box with the pad
\* offset and scale ratio that resize_and_pad applied reversed (offset 0:
\* the content sits at the top-left; ratio 1: it is not scaled), rounded to
\* integers and clamped to the frame bounds.
Clamp(x, lo, hi) == IF x < lo THEN lo ELSE IF x > hi THEN hi ELSE x

C4_ExactInverse ==
    pc = "box_done" =>
        LET h == frame.shape[1]
            w == frame.shape[2]
        IN  det_box = Detection(<<Clamp(box[1], 0, w), Clamp(box[2], 0, h),
                                  Clamp(box[3], 0, w), Clamp(box[4], 0, h)>>)

\* C5 as stated: after a failed read the processing loop goes on with the
\* next frame.
C5_LoopContinues ==
    quit = "readerr" => pc \notin {"cleanup", "done"}

\* C5 amended: a failed read leaves the tracker state unchanged and the
\* failed frame unprocessed, and it ends the processing loop: from then on
\* no frame is read, no tracker update is made and nothing is written.
C5_ReadFailureEndsLoop ==
    [][quit' = "readerr" =>
          /\ pc' \in {"cleanup", "done"}
          /\ deepsort' = deepsort
          /\ nread' = nread
          /\ updates' = updates
          /\ out' = out]_vars

C5_Witness ==
    /\ quit = "readerr"
    /\ pc = "done"
    /\ pos < MaxFrames
    /\ Len(deepsort.tracks) > 0

\* C6: resize_and_pad succeeds for a well-formed frame and fails with
\* InvalidFrame when the input has height 0 or width 0 or fewer than two
\* dimensions.
NoSpatial(image) ==
    \/ Len(image.shape) < 2
    \/ image.shape[1] = 0
    \/ image.shape[2] = 0

C6_InvalidFrame ==
    pc \in {"pad_done", "pad_raised"} =>
        IF NoSpatial(orig)
        THEN pc = "pad_raised" /\ err = "InvalidFrame"
        ELSE pc = "pad_done"

\* C7: when the detector call fails for a frame the error leaves inference
\* and run, update_tracks is not called for that frame and the tracker
\* state is the one from before the frame.
C7_DetectorFailureSurfaces ==
    \A k \in failed :
        /\ pc = "raised"
        /\ err = "DetectorError"
        /\ k = nread
        /\ k \notin {updates[i] : i \in 1 .. Len(updates)}
        /\ k \notin {out[i] : i \in 1 .. Len(out)}
        /\ deepsort.tracks = pre_tracks

C7_Witness ==
    /\ pc = "raised"
    /\ failed = {nread}
    /\ nread > 1
    /\ Len(deepsort.tracks) > 0

\* C8: the steps preprocess, detect, tracker update and output of frame k
\* complete, in this order, before frame k+1 is read; the 'q' key and the
\* end of the video are observed only between frames, so whenever the loop
\* is about to read or has been left through either, every frame read has
\* its tracker update applied and its output written.
Progress(p, d, u, o) ==
    /\ npad = nread - p
    /\ ndetect = nread - d
    /\ Len(updates) = nread - u
    /\ Len(out) = nread - o

C8_FrameAtATime ==
    /\ pc \in {"read", "cleanup", "done", "show"} => Progress(0, 0, 0, 0)
    /\ pc = "pad" => Progress(1, 1, 1, 1)
    /\ pc = "detect" => Progress(0, 1, 1, 1)
    /\ pc \in {"scale", "update"} => Progress(0, 0, 1, 1)
    /\ pc \in {"annotate", "return", "write"} => Progress(0, 0, 0, 1)
    /\ quit # "" => pc \in {"cleanup", "done"}

C8_Witness ==
    /\ quit = "q"
    /\ pc = "done"
    /\ nread >= 2
    /\ pos < MaxFrames
    /\ Len(deepsort.tracks) > 0

\* C9: with n_init = 3 a Tentative track becomes Confirmed exactly when its
\* run of consecutive hits (the detection that created it is the first)
\* reaches n_init; no track is emitted in the first n_init - 1 frames of
\* its life (the frame that creates it is the first); a deleted track is
\* never in the store, confirmed or emitted again.
C9_StoreOk ==
    /\ \A i \in 1 .. Len(deepsort.tracks) :
          LET t == deepsort.tracks[i]
          IN  /\ t.state = "Confirmed" => t.hits >= n_init /\ t.age >= n_init
              /\ t.state = "Tentative" => t.streak < n_init
              /\ t.id \notin deleted
    /\ Emitting =>
          /\ annotated \cap deleted = {}
          /\ \A id \in annotated :
                /\ id \in Ids(deepsort.tracks)
                /\ TrackOf(deepsort.tracks, id).age >= n_init

C9_Promotion ==
    \A i \in 1 .. Len(deepsort.tracks) :
        LET t == deepsort.tracks[i]
        IN  /\ t.id \in Ids(deepsort'.tracks) /\ t.state = "Tentative" =>
                  LET u == TrackOf(deepsort'.tracks, t.id)
                  IN  (u.state = "Confirmed") <=> (u.streak >= n_init)
            /\ t.id \in deleted => t.id \notin Ids(deepsort'.tracks)

InOrder(s) == s = [i \in 1 .. Len(s) |-> i]

C10_OneUpdateOneWrite ==
    /\ InOrder(updates)
    /\ InOrder(out)
    /\ Len(out) <= Len(updates)
    /\ Len(updates) <= ndetect
    /\ pc \in {"read", "cleanup", "done"} =>
          Len(updates) = ndetect /\ Len(out) = ndetect
    /\ pc = "annotate" =>
          /\ Len(updates) = ndetect
          /\ updates[Len(updates)] = nread
          /\ Len(update_arg) = pred

C10_Witness ==
    /\ pc = "annotate"
    /\ pred = 0
    /\ update_arg = <<>>
    /\ nread >= 2
    /\ updates[Len(updates)] = nread
    /\ Len(tracks) > 0
    /\ \A i \in 1 .. Len(tracks) : tracks[i].time_since_update > 0

====
